---- MODULE Spec2Model ----
(***************************************************************************)
(* A model of purellvmpy.core.builder.IRBuilder: a cursor (current block   *)
(* and anchor) over the basic blocks of one function, the instruction      *)
(* constructors that insert at the cursor, and the terminator constructors *)
(* that fill a block's terminator slot.                                    *)
(*                                                                         *)
(* Instruction nodes are immutable once constructed and the builder never  *)
(* reads their fields again, so a block's instruction list holds node      *)
(* identities (ids, allocated in construction order) and the node built by *)
(* the most recent call is kept whole in last.ret.                         *)
(***************************************************************************)
EXTENDS Integers, Sequences, FiniteSets, TLC

VARIABLES instructions, terminator, block, anchor, nextId, last, tail

vars == <<instructions, terminator, block, anchor, nextId, last, tail>>

\* ------------------------------------------------------------------ bounds
\* Largest number of instruction nodes inserted into the function.
MaxInstrs == 3
\* Raw alloca counts range over -MaxCount..MaxCount.
MaxCount == 2

\* ------------------------------------------------------------------ values
None == "None"
Blocks == {"B1", "B2"}

IntType(bits) == [kind |-> "int", bits |-> bits]
LabelType == [kind |-> "label", bits |-> 0]
PointerType == [kind |-> "pointer", bits |-> 32]
NoType == [kind |-> "none", bits |-> 0]

Constant(typ, val) == [kind |-> "Constant", type |-> typ, val |-> val]
\* a raw Python number passed where a Value is also accepted
PyInt(n) == [kind |-> "int", type |-> NoType, val |-> n]
NoneValue == [kind |-> "None", type |-> NoType, val |-> 0]
BlockRef(b) == [kind |-> "Block", type |-> LabelType, val |-> IF b = "B1" THEN 1 ELSE 2]

X == Constant(IntType(32), 1)
Y == Constant(IntType(32), 2)
Z == Constant(IntType(64), 1)
P == [kind |-> "Argument", type |-> PointerType, val |-> 0]

Values == {X, Y, Z}

isinstance_Value(v) == v.kind \in {"Constant", "Argument", "Instruction"}

\* ------------------------------------------------------------------ nodes
\* a node of class cls as the builder constructs it: the type and the opcode
\* it passes (NoType, "" when it passes none) and the operands, in order
Node(id, cls, typ, opname, operands) ==
    [id |-> id, cls |-> cls, typ |-> typ, opname |-> opname, operands |-> operands]

NoInstr == Node(0, "None", NoType, "", <<>>)

\* ------------------------------------------------------------------ helpers
Max(a, b) == IF a >= b THEN a ELSE b
Min(a, b) == IF a <= b THEN a ELSE b

_CMP_MAP == [c \in {">", "<", "==", "!=", ">=", "<="} |->
               CASE c = ">" -> "gt" [] c = "<" -> "lt" [] c = "==" -> "eq"
                 [] c = "!=" -> "ne" [] c = ">=" -> "ge" [] c = "<=" -> "le"]

\* block.is_terminated
is_terminated(b) == terminator[b] # NoInstr

\* instructions.find(instr): 0-based index of instr, or the sentinel -1
find(s, id) ==
    IF \E i \in 1..Len(s) : s[i] = id
    THEN (CHOOSE i \in 1..Len(s) : s[i] = id /\ \A j \in 1..(i - 1) : s[j] # id) - 1
    ELSE -1

\* instructions.insert(index, instr), list semantics: the index is clamped
ListInsert(s, index, id) ==
    LET i == IF index < 0 THEN Max(0, Len(s) + index) ELSE Min(index, Len(s))
    IN  SubSeq(s, 1, i) \o <<id>> \o SubSeq(s, i + 1, Len(s))

\* the arguments of a call: two Value slots, a type slot and a symbol slot
Args(a, b, typ, sym) == [a |-> a, b |-> b, typ |-> typ, sym |-> sym]
NoArgs == Args(NoneValue, NoneValue, NoType, "")
InstrRef(id) == [kind |-> "Instruction", type |-> NoType, val |-> id]

\* the record of the most recent call: what was called, with what, whether
\* it returned (ok) or raised (err), and the node it returned
Call(op, args, ok, err, ret) ==
    [op |-> op, args |-> args, ok |-> ok, err |-> err, ret |-> ret]

\* the run of insertions made since the last position_at_end
NoTail == [active |-> FALSE, blk |-> None, base |-> <<>>, added |-> <<>>]

\* every instruction id currently held by some block
Placed == UNION {{instructions[b][i] : i \in 1..Len(instructions[b])} : b \in Blocks}

\* ------------------------------------------------------------------ state
Init ==
    /\ instructions = [b \in Blocks |-> <<>>]
    /\ terminator = [b \in Blocks |-> NoInstr]
    /\ block = None
    /\ anchor = 0
    /\ nextId = 1
    /\ last = Call("init", NoArgs, TRUE, "", NoInstr)
    /\ tail = NoTail

\* a call that raises: nothing but the call record changes
Raise(op, args, err) ==
    /\ last' = Call(op, args, FALSE, err, NoInstr)
    /\ UNCHANGED <<instructions, terminator, block, anchor, nextId, tail>>

\* IRBuilder.__init__(block)
New(b) ==
    /\ block' = b
    /\ anchor' = IF b # None THEN Len(instructions[b]) ELSE 0
    /\ last' = Call("__init__", NoArgs, TRUE, "", NoInstr)
    /\ tail' = NoTail
    /\ UNCHANGED <<instructions, terminator, nextId>>

\* position_before without the clamp at 0
position_before_unclamped(id) ==
    IF block = None
    THEN Raise("position_before", Args(InstrRef(id), NoneValue, NoType, ""), "AttributeError")
    ELSE /\ anchor' = find(instructions[block], id) - 1
         /\ last' = Call("position_before", Args(InstrRef(id), NoneValue, NoType, ""),
                         TRUE, "", NoInstr)
         /\ tail' = NoTail
         /\ UNCHANGED <<instructions, terminator, block, nextId>>

\* IRBuilder.position_before(instr)
position_before(id) ==
    IF block = None
    THEN Raise("position_before", Args(InstrRef(id), NoneValue, NoType, ""), "AttributeError")
    ELSE /\ anchor' = Max(0, find(instructions[block], id) - 1)
         /\ last' = Call("position_before", Args(InstrRef(id), NoneValue, NoType, ""),
                         TRUE, "", NoInstr)
         /\ tail' = NoTail
         /\ UNCHANGED <<instructions, terminator, block, nextId>>

\* position_after that takes the index of instr itself as the anchor
position_after_at(id) ==
    IF block = None
    THEN Raise("position_after", Args(InstrRef(id), NoneValue, NoType, ""), "AttributeError")
    ELSE /\ anchor' = Min(find(instructions[block], id), Len(instructions[block]))
         /\ last' = Call("position_after", Args(InstrRef(id), NoneValue, NoType, ""),
                         TRUE, "", NoInstr)
         /\ tail' = NoTail
         /\ UNCHANGED <<instructions, terminator, block, nextId>>

\* IRBuilder.position_after(instr)
position_after(id) ==
    IF block = None
    THEN Raise("position_after", Args(InstrRef(id), NoneValue, NoType, ""), "AttributeError")
    ELSE /\ anchor' = Min(find(instructions[block], id) + 1, Len(instructions[block]))
         /\ last' = Call("position_after", Args(InstrRef(id), NoneValue, NoType, ""),
                         TRUE, "", NoInstr)
         /\ tail' = NoTail
         /\ UNCHANGED <<instructions, terminator, block, nextId>>

\* position_at_start that resets the anchor only
position_at_start_block_kept(b) ==
    /\ block' = block
    /\ anchor' = 0
    /\ last' = Call("position_at_start", Args(BlockRef(b), NoneValue, NoType, ""),
                    TRUE, "", NoInstr)
    /\ tail' = NoTail
    /\ UNCHANGED <<instructions, terminator, nextId>>

\* IRBuilder.position_at_start(block)
position_at_start(b) ==
    /\ block' = b
    /\ anchor' = 0
    /\ last' = Call("position_at_start", Args(BlockRef(b), NoneValue, NoType, ""),
                    TRUE, "", NoInstr)
    /\ tail' = NoTail
    /\ UNCHANGED <<instructions, terminator, nextId>>

\* IRBuilder.position_at_end(block)
position_at_end(b) ==
    /\ block' = b
    /\ anchor' = Len(instructions[b])
    /\ last' = Call("position_at_end", Args(BlockRef(b), NoneValue, NoType, ""),
                    TRUE, "", NoInstr)
    /\ tail' = [active |-> TRUE, blk |-> b, base |-> instructions[b], added |-> <<>>]
    /\ UNCHANGED <<instructions, terminator, nextId>>

\* _insert that appends instead of inserting at the anchor
_insert_appends(op, args, instr) ==
    /\ nextId <= MaxInstrs
    /\ instructions' = [instructions EXCEPT ![block] = Append(@, instr.id)]
    /\ anchor' = anchor + 1
    /\ nextId' = nextId + 1
    /\ last' = Call(op, args, TRUE, "", instr)
    /\ tail' = IF tail.active THEN [tail EXCEPT !.added = Append(@, instr.id)] ELSE tail
    /\ UNCHANGED <<terminator, block>>

\* _insert that overwrites the instruction at the anchor
_insert_overwrites(op, args, instr) ==
    /\ nextId <= MaxInstrs
    /\ instructions' = [instructions EXCEPT ![block] =
                           IF anchor < Len(@) THEN [@ EXCEPT ![anchor + 1] = instr.id]
                           ELSE Append(@, instr.id)]
    /\ anchor' = anchor + 1
    /\ nextId' = nextId + 1
    /\ last' = Call(op, args, TRUE, "", instr)
    /\ tail' = IF tail.active THEN [tail EXCEPT !.added = Append(@, instr.id)] ELSE tail
    /\ UNCHANGED <<terminator, block>>

\* _insert that leaves the anchor where it was
_insert_anchor_kept(op, args, instr) ==
    /\ nextId <= MaxInstrs
    /\ instructions' = [instructions EXCEPT ![block] = ListInsert(@, anchor, instr.id)]
    /\ anchor' = anchor
    /\ nextId' = nextId + 1
    /\ last' = Call(op, args, TRUE, "", instr)
    /\ tail' = IF tail.active THEN [tail EXCEPT !.added = Append(@, instr.id)] ELSE tail
    /\ UNCHANGED <<terminator, block>>

\* IRBuilder._insert(instr), reached from the constructor call (op, args)
_insert(op, args, instr) ==
    /\ nextId <= MaxInstrs
    /\ instructions' = [instructions EXCEPT ![block] = ListInsert(@, anchor, instr.id)]
    /\ anchor' = anchor + 1
    /\ nextId' = nextId + 1
    /\ last' = Call(op, args, TRUE, "", instr)
    /\ tail' = IF tail.active THEN [tail EXCEPT !.added = Append(@, instr.id)] ELSE tail
    /\ UNCHANGED <<terminator, block>>

\* _set_terminator that advances the anchor as _insert does
_set_terminator_advancing(op, args, term) ==
    IF is_terminated(block)
    THEN Raise(op, args, "AssertionError")
    ELSE /\ terminator' = [terminator EXCEPT ![block] = term]
         /\ anchor' = anchor + 1
         /\ last' = Call(op, args, TRUE, "", term)
         /\ UNCHANGED <<instructions, block, nextId, tail>>

\* _set_terminator without the assertion
_set_terminator_unchecked(op, args, term) ==
    /\ terminator' = [terminator EXCEPT ![block] = term]
    /\ last' = Call(op, args, TRUE, "", term)
    /\ UNCHANGED <<instructions, block, anchor, nextId, tail>>

\* IRBuilder._set_terminator(term), reached from the constructor call (op, args)
_set_terminator(op, args, term) ==
    IF is_terminated(block)
    THEN Raise(op, args, "AssertionError")
    ELSE /\ terminator' = [terminator EXCEPT ![block] = term]
         /\ last' = Call(op, args, TRUE, "", term)
         /\ UNCHANGED <<instructions, block, anchor, nextId, tail>>

\* ------------------------------------------------------------------ arithmetic
\* _binop without the assertion on the operand types
_binop_unchecked(opname, lhs, rhs) ==
    IF block = None
    THEN Raise(opname, Args(lhs, rhs, NoType, ""), "AttributeError")
    ELSE _insert(opname, Args(lhs, rhs, NoType, ""),
                 Node(nextId, "Instruction", lhs.type, opname, <<lhs, rhs>>))

\* _binop that passes the operands in the opposite order
_binop_swapped(opname, lhs, rhs) ==
    IF lhs.type # rhs.type
    THEN Raise(opname, Args(lhs, rhs, NoType, ""), "AssertionError")
    ELSE IF block = None
    THEN Raise(opname, Args(lhs, rhs, NoType, ""), "AttributeError")
    ELSE _insert(opname, Args(lhs, rhs, NoType, ""),
                 Node(nextId, "Instruction", lhs.type, opname, <<rhs, lhs>>))

\* _binop(opname): the body shared by add, sub, mul, udiv, sdiv
_binop(opname, lhs, rhs) ==
    IF lhs.type # rhs.type
    THEN Raise(opname, Args(lhs, rhs, NoType, ""), "AssertionError")
    ELSE IF block = None
    THEN Raise(opname, Args(lhs, rhs, NoType, ""), "AttributeError")
    ELSE _insert(opname, Args(lhs, rhs, NoType, ""),
                 Node(nextId, "Instruction", lhs.type, opname, <<lhs, rhs>>))

add(lhs, rhs) == _binop("add", lhs, rhs)
sub(lhs, rhs) == _binop("sub", lhs, rhs)
mul(lhs, rhs) == _binop("mul", lhs, rhs)
udiv(lhs, rhs) == _binop("udiv", lhs, rhs)
sdiv(lhs, rhs) == _binop("sdiv", lhs, rhs)

\* ------------------------------------------------------------------ comparisons
\* the shared tail with the arithmetic constructors' assertion on the types
Compare_typed(op, cls, cmpop, pred, lhs, rhs) ==
    IF lhs.type # rhs.type
    THEN Raise(op, Args(lhs, rhs, NoType, cmpop), "AssertionError")
    ELSE IF block = None
    THEN Raise(op, Args(lhs, rhs, NoType, cmpop), "AttributeError")
    ELSE _insert(op, Args(lhs, rhs, NoType, cmpop), Node(nextId, cls, NoType, pred, <<lhs, rhs>>))

\* the tail shared by the four comparison constructors
Compare(op, cls, cmpop, pred, lhs, rhs) ==
    IF block = None
    THEN Raise(op, Args(lhs, rhs, NoType, cmpop), "AttributeError")
    ELSE _insert(op, Args(lhs, rhs, NoType, cmpop), Node(nextId, cls, NoType, pred, <<lhs, rhs>>))

\* icmp_signed that prefixes every base predicate, eq and ne included
icmp_signed_always_prefixed(cmpop, lhs, rhs) ==
    IF cmpop \notin DOMAIN _CMP_MAP
    THEN Raise("icmp_signed", Args(lhs, rhs, NoType, cmpop), "KeyError")
    ELSE Compare("icmp_signed", "ICMPInstr", cmpop, "s" \o _CMP_MAP[cmpop], lhs, rhs)

\* IRBuilder.icmp_signed(cmpop, lhs, rhs)
icmp_signed(cmpop, lhs, rhs) ==
    IF cmpop \notin DOMAIN _CMP_MAP
    THEN Raise("icmp_signed", Args(lhs, rhs, NoType, cmpop), "KeyError")
    ELSE Compare("icmp_signed", "ICMPInstr", cmpop,
                 IF cmpop \notin {"==", "!="} THEN "s" \o _CMP_MAP[cmpop] ELSE _CMP_MAP[cmpop],
                 lhs, rhs)

\* IRBuilder.icmp_unsigned(cmpop, lhs, rhs)
icmp_unsigned(cmpop, lhs, rhs) ==
    IF cmpop \notin DOMAIN _CMP_MAP
    THEN Raise("icmp_unsigned", Args(lhs, rhs, NoType, cmpop), "KeyError")
    ELSE Compare("icmp_unsigned", "ICMPInstr", cmpop,
                 IF cmpop \notin {"==", "!="} THEN "u" \o _CMP_MAP[cmpop] ELSE _CMP_MAP[cmpop],
                 lhs, rhs)

\* fcmp_ordered that leaves eq and ne without a prefix, as the icmp pair does
fcmp_ordered_bare_eq(cmpop, lhs, rhs) ==
    Compare("fcmp_ordered", "FCMPInstr", cmpop,
            IF cmpop \in DOMAIN _CMP_MAP
            THEN (IF cmpop \notin {"==", "!="} THEN "o" \o _CMP_MAP[cmpop] ELSE _CMP_MAP[cmpop])
            ELSE cmpop,
            lhs, rhs)

\* IRBuilder.fcmp_ordered(cmpop, lhs, rhs)
fcmp_ordered(cmpop, lhs, rhs) ==
    Compare("fcmp_ordered", "FCMPInstr", cmpop,
            IF cmpop \in DOMAIN _CMP_MAP THEN "o" \o _CMP_MAP[cmpop] ELSE cmpop,
            lhs, rhs)

\* IRBuilder.fcmp_unordered(cmpop, lhs, rhs)
fcmp_unordered(cmpop, lhs, rhs) ==
    Compare("fcmp_unordered", "FCMPInstr", cmpop,
            IF cmpop \in DOMAIN _CMP_MAP THEN "u" \o _CMP_MAP[cmpop] ELSE cmpop,
            lhs, rhs)

\* ------------------------------------------------------------------ casts
\* _castop(opname): the body shared by the ten cast constructors
_castop(opname, val, typ) ==
    IF block = None
    THEN Raise(opname, Args(val, NoneValue, typ, ""), "AttributeError")
    ELSE _insert(opname, Args(val, NoneValue, typ, ""),
                 Node(nextId, "CastInstr", typ, opname, <<val>>))

trunc(val, typ) == _castop("trunc", val, typ)
zext(val, typ) == _castop("zext", val, typ)
sext(val, typ) == _castop("sext", val, typ)
fptrunc(val, typ) == _castop("fptrunc", val, typ)
fpext(val, typ) == _castop("fpext", val, typ)
bitcast(val, typ) == _castop("bitcast", val, typ)
fptoui(val, typ) == _castop("fptoui", val, typ)
uitofp(val, typ) == _castop("uitofp", val, typ)
fptosi(val, typ) == _castop("fptosi", val, typ)
sitofp(val, typ) == _castop("sitofp", val, typ)

\* ------------------------------------------------------------------ memory
\* alloca that asserts count >= 0
alloca_zero_allowed(typ, count, ordered) ==
    LET args == Args(count, NoneValue, typ, "")
        stored == IF count.kind = "int" THEN Constant(IntType(32), count.val) ELSE count
    IN  IF count.kind = "int" /\ ~(count.val >= 0)
        THEN Raise("alloca", args, "AssertionError")
        ELSE IF isinstance_Value(count) /\ ~ordered
        THEN Raise("alloca", args, "TypeError")
        ELSE IF block = None
        THEN Raise("alloca", args, "AttributeError")
        ELSE _insert("alloca", args, Node(nextId, "AllocaInstr", typ, "", <<stored>>))

\* IRBuilder.alloca(typ, count).  count is None, a raw number or a Value.
\* `count > 0` on a Value is decided by the interpreter: Python 2 orders any
\* object above every number, Python 3 raises TypeError for a class without
\* the comparison; ordered says which of the two happens.
alloca(typ, count, ordered) ==
    LET args == Args(count, NoneValue, typ, "")
        stored == IF count.kind = "int" THEN Constant(IntType(32), count.val) ELSE count
    IN  IF count.kind = "int" /\ ~(count.val > 0)
        THEN Raise("alloca", args, "AssertionError")
        ELSE IF isinstance_Value(count) /\ ~ordered
        THEN Raise("alloca", args, "TypeError")
        ELSE IF block = None
        THEN Raise("alloca", args, "AttributeError")
        ELSE _insert("alloca", args, Node(nextId, "AllocaInstr", typ, "", <<stored>>))

\* IRBuilder.load(ptr)
load(ptr) ==
    IF block = None
    THEN Raise("load", Args(ptr, NoneValue, NoType, ""), "AttributeError")
    ELSE _insert("load", Args(ptr, NoneValue, NoType, ""),
                 Node(nextId, "LoadInstr", NoType, "", <<ptr>>))

\* IRBuilder.store(val, ptr)
store(val, ptr) ==
    IF block = None
    THEN Raise("store", Args(val, ptr, NoType, ""), "AttributeError")
    ELSE _insert("store", Args(val, ptr, NoType, ""),
                 Node(nextId, "StoreInstr", NoType, "", <<val, ptr>>))

\* ------------------------------------------------------------------ terminators
\* IRBuilder.jump(target)
jump(target) ==
    IF block = None
    THEN Raise("jump", Args(BlockRef(target), NoneValue, NoType, ""), "AttributeError")
    ELSE _set_terminator("jump", Args(BlockRef(target), NoneValue, NoType, ""),
                         Node(0, "Terminator", NoType, "br", <<BlockRef(target)>>))

\* IRBuilder.branch(cond, truebr, falsebr)
branch(cond, truebr, falsebr) ==
    IF block = None
    THEN Raise("branch", Args(cond, BlockRef(truebr), NoType, ""), "AttributeError")
    ELSE _set_terminator("branch", Args(cond, BlockRef(truebr), NoType, ""),
                         Node(0, "Terminator", NoType, "br",
                              <<cond, BlockRef(truebr), BlockRef(falsebr)>>))

\* IRBuilder.ret_void()
ret_void ==
    IF block = None
    THEN Raise("ret_void", NoArgs, "AttributeError")
    ELSE _set_terminator("ret_void", NoArgs, Node(0, "Terminator", NoType, "ret void", <<>>))

\* IRBuilder.ret(value)
ret(value) ==
    IF block = None
    THEN Raise("ret", Args(value, NoneValue, NoType, ""), "AttributeError")
    ELSE _set_terminator("ret", Args(value, NoneValue, NoType, ""),
                         Node(0, "Terminator", NoType, "ret", <<value>>))

\* ------------------------------------------------------------------ specifications
Positioning ==
    \/ \E b \in Blocks \cup {None} : New(b)
    \/ \E id \in Placed : position_before(id)
    \/ \E id \in Placed : position_after(id)
    \/ \E b \in Blocks : position_at_start(b)
    \/ \E b \in Blocks : position_at_end(b)

Terminators ==
    \/ \E target \in Blocks : jump(target)
    \/ branch(X, "B1", "B2")
    \/ ret_void
    \/ ret(X)

\* The builder as a whole: every positioning call, every terminator and one
\* constructor of each instruction family.
Next ==
    \/ Positioning
    \/ Terminators
    \/ \E rhs \in {Y, Z} : add(X, rhs)
    \/ icmp_signed("<", X, Y)
    \/ trunc(Z, IntType(32))
    \/ \E count \in {NoneValue, PyInt(0)} : alloca(IntType(32), count, TRUE)
    \/ load(P)
    \/ store(X, P)

Spec == Init /\ [][Next]_vars

\* The arithmetic constructors over every pair of operands.
NextArith ==
    \/ \E b \in Blocks \cup {None} : New(b)
    \/ \E b \in Blocks : position_at_start(b)
    \/ \E b \in Blocks : position_at_end(b)
    \/ ret_void
    \/ \E lhs \in Values, rhs \in Values : add(lhs, rhs)
    \/ \E lhs \in Values, rhs \in Values : sub(lhs, rhs)
    \/ \E lhs \in Values, rhs \in Values : mul(lhs, rhs)
    \/ \E lhs \in Values, rhs \in Values : udiv(lhs, rhs)
    \/ \E lhs \in Values, rhs \in Values : sdiv(lhs, rhs)

SpecArith == Init /\ [][NextArith]_vars

\* The memory constructors over every kind of count.
Counts == {NoneValue, X, Z} \cup {PyInt(n) : n \in (0 - MaxCount)..MaxCount}

NextMem ==
    \/ \E b \in Blocks \cup {None} : New(b)
    \/ \E b \in Blocks : position_at_start(b)
    \/ \E b \in Blocks : position_at_end(b)
    \/ ret_void
    \/ \E typ \in {IntType(32), IntType(64)}, count \in Counts, ordered \in BOOLEAN :
          alloca(typ, count, ordered)
    \/ load(P)
    \/ \E val \in Values : store(val, P)

SpecMem == Init /\ [][NextMem]_vars

\* The comparison constructors over every symbol, one raw predicate, and
\* operand pairs of equal and of differing types.
CmpSyms == {">", "<", "==", "!=", ">=", "<=", "uno"}
CmpPairs == {<<X, Y>>, <<X, Z>>, <<Z, Y>>}

NextCmp ==
    \/ \E b \in Blocks \cup {None} : New(b)
    \/ \E b \in Blocks : position_at_start(b)
    \/ \E b \in Blocks : position_at_end(b)
    \/ ret_void
    \/ \E cmpop \in CmpSyms, pr \in CmpPairs : icmp_signed(cmpop, pr[1], pr[2])
    \/ \E cmpop \in CmpSyms, pr \in CmpPairs : icmp_unsigned(cmpop, pr[1], pr[2])
    \/ \E cmpop \in CmpSyms, pr \in CmpPairs : fcmp_ordered(cmpop, pr[1], pr[2])
    \/ \E cmpop \in CmpSyms, pr \in CmpPairs : fcmp_unordered(cmpop, pr[1], pr[2])

SpecCmp == Init /\ [][NextCmp]_vars

\* ------------------------------------------------------------------ properties
BinOps == {"add", "sub", "mul", "udiv", "sdiv"}
CmpCtors == {"icmp_signed", "icmp_unsigned", "fcmp_ordered", "fcmp_unordered"}
CastOps == {"trunc", "zext", "sext", "fptrunc", "fpext", "bitcast",
            "fptoui", "uitofp", "fptosi", "sitofp"}
MemOps == {"alloca", "load", "store"}
InstrOps == BinOps \cup CmpCtors \cup CastOps \cup MemOps
TermOps == {"jump", "branch", "ret_void", "ret"}

\* the block whose instruction list holds the instruction id
ParentOf(id) == CHOOSE b \in Blocks : \E i \in 1..Len(instructions[b]) : instructions[b][i] = id

\* C1: once a terminator constructor has succeeded on a block, every later
\* instruction constructor call made by a builder positioned on that block
\* fails and leaves the block's instruction sequence as it was.
C1_NoInstructionAfterTerminator ==
    [][(block # None /\ is_terminated(block) /\ last'.op \in InstrOps)
         => (~last'.ok /\ instructions' = instructions)]_vars

\* C2: every block starts without a terminator; a terminator constructor on
\* a builder positioned on a block succeeds exactly when that block has no
\* terminator yet, and then stores the terminator it returns; on a terminated
\* block it fails on the assertion; a stored terminator never changes again.
C2_TerminatorSetOnce ==
    /\ \A b \in Blocks : ~is_terminated(b)
    /\ [][/\ \A b \in Blocks : is_terminated(b) => terminator'[b] = terminator[b]
          /\ \A b \in Blocks : terminator'[b] # terminator[b] =>
                /\ b = block /\ block' = block
                /\ last'.op \in TermOps /\ last'.ok
                /\ terminator'[b] = last'.ret
          /\ (last'.op \in TermOps /\ block # None) =>
                /\ last'.ok <=> ~is_terminated(block)
                /\ ~last'.ok => last'.err = "AssertionError"
                /\ last'.ok => (terminator'[block] = last'.ret /\ last'.ret.cls = "Terminator")
         ]_vars

C2_Witness ==
    /\ last.op \in TermOps /\ ~last.ok /\ last.err = "AssertionError"
    /\ block # None /\ is_terminated(block)
    /\ terminator[block].opname # "ret void" /\ last.op = "ret_void"

\* C3: add, sub, mul, udiv and sdiv called with operands of differing types
\* fail on the type assertion, and no block's instruction sequence, nor the
\* builder's block and anchor, change.
C3_TypeMismatchRejected ==
    [][(last'.op \in BinOps /\ last'.args.a.type # last'.args.b.type)
         => /\ ~last'.ok /\ last'.err = "AssertionError"
            /\ instructions' = instructions
            /\ anchor' = anchor /\ block' = block]_vars

C3_Witness ==
    /\ last.op \in BinOps /\ ~last.ok /\ last.err = "AssertionError"
    /\ last.args.a.type # last.args.b.type
    /\ block # None /\ Len(instructions[block]) > 0

\* C4: after position_at_end(block), the instructions inserted by the
\* following successful constructor calls (no repositioning in between) are
\* the last elements of the block's sequence, in call order, behind every
\* instruction that was there before, those in their original order.
C4_AppendAtEnd ==
    tail.active =>
        /\ block = tail.blk
        /\ instructions[tail.blk] = tail.base \o tail.added
        /\ anchor = Len(instructions[tail.blk])

C4_Witness ==
    /\ tail.active /\ Len(tail.added) >= 2 /\ Len(tail.base) >= 1
    /\ last.op \in InstrOps /\ last.ok

\* C5: position_before(instr) makes instr's parent block the current block
\* and sets the anchor to max(0, i - 1), i the index of instr in that block.
C5_PositionBeforeMovesToParent ==
    (last.op = "position_before" /\ last.ok) =>
        LET id == last.args.a.val
            parent == ParentOf(id)
        IN  /\ block = parent
            /\ anchor = Max(0, find(instructions[parent], id) - 1)

\* C6: position_before and position_after called with an instruction that is
\* not in the block searched fail and leave the current block and the anchor
\* as they were.
C6_NotFoundRejected ==
    [][(/\ last'.op \in {"position_before", "position_after"}
        /\ block # None
        /\ find(instructions[block], last'.args.a.val) = -1)
         => (~last'.ok /\ block' = block /\ anchor' = anchor)]_vars

\* C7: whenever the builder has a current block, its anchor lies between 0
\* and the length of that block's instruction sequence.
C7_AnchorInRange ==
    block # None => (0 <= anchor /\ anchor <= Len(instructions[block]))

C7_Witness ==
    /\ last.op = "position_before" /\ last.ok
    /\ block # None /\ Len(instructions[block]) = 3 /\ anchor = 1
    /\ find(instructions[block], last.args.a.val) = 2

\* C8: add, sub, mul, udiv and sdiv called with operands of equal types on a
\* builder that has a current block succeed, insert exactly one new
\* instruction at the anchor and return it; its opcode is the operation's
\* name, its type is lhs.type and its operands are (lhs, rhs) in that order.
C8_BinopBuildsInstruction ==
    [][(last'.op \in BinOps /\ last'.args.a.type = last'.args.b.type /\ block # None)
         => /\ last'.ok
            /\ last'.ret.cls = "Instruction"
            /\ last'.ret.opname = last'.op
            /\ last'.ret.typ = last'.args.a.type
            /\ last'.ret.operands = <<last'.args.a, last'.args.b>>
            /\ \A b \in Blocks : \A i \in 1..Len(instructions[b]) :
                  instructions[b][i] # last'.ret.id
            /\ Len(instructions'[block]) = Len(instructions[block]) + 1
            /\ instructions'[block][anchor + 1] = last'.ret.id
            /\ \A i \in 1..Len(instructions[block]) :
                  instructions'[block][IF i <= anchor THEN i ELSE i + 1] = instructions[block][i]
            /\ \A b \in Blocks \ {block} : instructions'[b] = instructions[b]]_vars

C8_Witness ==
    /\ last.op = "sdiv" /\ last.ok
    /\ last.args.a # last.args.b
    /\ block # None /\ anchor < Len(instructions[block])
    /\ instructions[block][anchor] = last.ret.id

\* C9: alloca with a raw count that is zero or negative fails on the
\* assertion, and no block's instruction sequence, nor the anchor, changes.
C9_AllocaRejectsNonPositive ==
    [][(last'.op = "alloca" /\ last'.args.a.kind = "int" /\ last'.args.a.val <= 0)
         => /\ ~last'.ok /\ last'.err = "AssertionError"
            /\ instructions' = instructions
            /\ anchor' = anchor /\ block' = block]_vars

C9_Witness ==
    /\ last.op = "alloca" /\ ~last.ok /\ last.err = "AssertionError"
    /\ last.args.a = PyInt(0)
    /\ block # None /\ Len(instructions[block]) > 0

\* C10: on a builder that has a current block, alloca with a positive raw
\* count n inserts an AllocaInstr whose count operand is the Constant of the
\* 32-bit integer type with value n, alloca with count None inserts one
\* whose count is None, and alloca with a count that is already a Value
\* inserts one whose count is that same Value.
C10_AllocaCountNormalised ==
    [][(last'.op = "alloca" /\ block # None)
         => LET count == last'.args.a
                built == /\ last'.ok
                         /\ last'.ret.cls = "AllocaInstr"
                         /\ last'.ret.typ = last'.args.typ
                         /\ Len(instructions'[block]) = Len(instructions[block]) + 1
                         /\ instructions'[block][anchor + 1] = last'.ret.id
            IN  /\ (count.kind = "int" /\ count.val > 0) =>
                     /\ built
                     /\ last'.ret.operands =
                          <<[kind |-> "Constant", type |-> [kind |-> "int", bits |-> 32],
                             val |-> count.val]>>
                /\ count.kind = "None" =>
                     /\ built
                     /\ last'.ret.operands = <<NoneValue>>
                /\ count.kind \in {"Constant", "Argument", "Instruction"} =>
                     /\ built
                     /\ last'.ret.operands = <<count>>]_vars

\* the six comparison symbols and the predicates the claims expect of them
Recognized == {">", "<", "==", "!=", ">=", "<="}
Base(c) == CASE c = ">" -> "gt" [] c = "<" -> "lt" [] c = "==" -> "eq"
             [] c = "!=" -> "ne" [] c = ">=" -> "ge" [] c = "<=" -> "le"
SignedPred(c) == CASE c = ">" -> "sgt" [] c = "<" -> "slt" [] c = "==" -> "eq"
                   [] c = "!=" -> "ne" [] c = ">=" -> "sge" [] c = "<=" -> "sle"
UnsignedPred(c) == CASE c = ">" -> "ugt" [] c = "<" -> "ult" [] c = "==" -> "eq"
                     [] c = "!=" -> "ne" [] c = ">=" -> "uge" [] c = "<=" -> "ule"
OrderedPred(c) == CASE c = ">" -> "ogt" [] c = "<" -> "olt" [] c = "==" -> "oeq"
                    [] c = "!=" -> "one" [] c = ">=" -> "oge" [] c = "<=" -> "ole"
UnorderedPred(c) == CASE c = ">" -> "ugt" [] c = "<" -> "ult" [] c = "==" -> "ueq"
                      [] c = "!=" -> "une" [] c = ">=" -> "uge" [] c = "<=" -> "ule"

\* C11: for each of the six symbols, on a builder that has a current block,
\* icmp_signed returns an ICMPInstr whose predicate is "s" + base and
\* icmp_unsigned one whose predicate is "u" + base, except that for == and !=
\* both give the bare base predicate (eq, ne).
C11_IcmpPredicates ==
    [][(last'.op \in {"icmp_signed", "icmp_unsigned"} /\ block # None
        /\ last'.args.sym \in Recognized)
         => /\ last'.ok
            /\ last'.ret.cls = "ICMPInstr"
            /\ last'.ret.opname = IF last'.op = "icmp_signed"
                                  THEN SignedPred(last'.args.sym)
                                  ELSE UnsignedPred(last'.args.sym)
            /\ last'.args.sym \in {"==", "!="} => last'.ret.opname = Base(last'.args.sym)]_vars

C11_Witness ==
    /\ last.op = "icmp_signed" /\ last.ok
    /\ last.args.sym = "==" /\ last.ret.opname = "eq"
    /\ block # None /\ instructions[block][anchor] = last.ret.id

\* C12: for each of the six symbols, on a builder that has a current block,
\* fcmp_ordered returns an FCMPInstr whose predicate is "o" + base and
\* fcmp_unordered one whose predicate is "u" + base, == and != included; for
\* any other cmpop both use cmpop itself as the predicate and still insert
\* the instruction.
C12_FcmpPredicates ==
    [][(last'.op \in {"fcmp_ordered", "fcmp_unordered"} /\ block # None)
         => /\ last'.ok
            /\ last'.ret.cls = "FCMPInstr"
            /\ last'.ret.opname =
                 IF last'.args.sym \notin Recognized THEN last'.args.sym
                 ELSE IF last'.op = "fcmp_ordered"
                 THEN OrderedPred(last'.args.sym)
                 ELSE UnorderedPred(last'.args.sym)
            /\ Len(instructions'[block]) = Len(instructions[block]) + 1
            /\ instructions'[block][anchor + 1] = last'.ret.id]_vars

C12_Witness ==
    /\ last.op = "fcmp_ordered" /\ last.ok
    /\ last.args.sym = "!=" /\ last.ret.opname = "one"
    /\ block # None /\ instructions[block][anchor] = last.ret.id

\* the block named by a block argument
BlockOf(ref) == IF ref.val = 1 THEN "B1" ELSE "B2"

\* C13: position_at_start(block), from any builder state, leaves the cursor
\* at (block, 0) and changes no block's instruction sequence or terminator;
\* called again with the same block right after, it leaves the cursor as the
\* first call left it.
C13_PositionAtStartIdempotent ==
    [][last'.op = "position_at_start"
         => /\ last'.ok
            /\ block' = BlockOf(last'.args.a) /\ anchor' = 0
            /\ instructions' = instructions /\ terminator' = terminator
            /\ (last.op = "position_at_start" /\ last.args = last'.args)
                  => (block' = block /\ anchor' = anchor)]_vars

C13_Witness ==
    /\ last.op = "position_at_start" /\ last.ok
    /\ block = BlockOf(last.args.a) /\ anchor = 0
    /\ Len(instructions[block]) >= 2
    /\ is_terminated(block)

\* C14: a successful instruction constructor call on a builder with anchor a
\* on a block of length n puts the new instruction at index a, leaves the
\* instructions at indices < a in place, moves those at indices >= a up by
\* one, makes the length n + 1 and sets the anchor to a + 1.
C14_InsertAtAnchor ==
    [][(last'.op \in InstrOps /\ last'.ok)
         => /\ block # None /\ block' = block
            /\ Len(instructions'[block]) = Len(instructions[block]) + 1
            /\ instructions'[block][anchor + 1] = last'.ret.id
            /\ \A i \in 1..Len(instructions[block]) :
                  /\ i <= anchor => instructions'[block][i] = instructions[block][i]
                  /\ i > anchor => instructions'[block][i + 1] = instructions[block][i]
            /\ anchor' = anchor + 1
            /\ instructions'[block][anchor'] = last'.ret.id]_vars

C14_Witness ==
    /\ last.op \in InstrOps /\ last.ok
    /\ block # None /\ Len(instructions[block]) = 3 /\ anchor = 2
    /\ instructions[block][2] = last.ret.id

\* C15: a successful jump, branch, ret or ret_void changes the terminator
\* slot of the current block and nothing else: the current block, the
\* anchor, every block's instruction sequence and the other block's
\* terminator are as before.
C15_TerminatorFrame ==
    [][(last'.op \in TermOps /\ last'.ok)
         => /\ block # None /\ block' = block
            /\ anchor' = anchor
            /\ instructions' = instructions
            /\ terminator'[block] = last'.ret /\ terminator[block] = NoInstr
            /\ \A b \in Blocks \ {block} : terminator'[b] = terminator[b]]_vars

C15_Witness ==
    /\ last.op = "branch" /\ last.ok
    /\ block # None /\ terminator[block] = last.ret
    /\ Len(instructions[block]) = 2 /\ anchor = 1

\* C16: position_after(instr), with instr at index i of the current block,
\* sets the anchor to min(i + 1, len) and keeps the current block; the
\* instruction inserted by the next call, if that call is a successful
\* constructor, lands at index i + 1 and instr stays at index i.
C16_PositionAfter ==
    [][/\ (last'.op = "position_after" /\ block # None
           /\ find(instructions[block], last'.args.a.val) # -1)
          => /\ last'.ok /\ block' = block
             /\ anchor' = Min(find(instructions[block], last'.args.a.val) + 1,
                              Len(instructions[block]))
       /\ (/\ last.op = "position_after" /\ last.ok
           /\ find(instructions[block], last.args.a.val) # -1
           /\ last'.op \in InstrOps /\ last'.ok)
          => /\ find(instructions'[block], last'.ret.id)
                  = find(instructions[block], last.args.a.val) + 1
             /\ find(instructions'[block], last.args.a.val)
                  = find(instructions[block], last.args.a.val)]_vars

C16_Witness ==
    /\ last.op = "position_after" /\ last.ok
    /\ block # None /\ Len(instructions[block]) = 3
    /\ find(instructions[block], last.args.a.val) = 0 /\ anchor = 1

\* C17: the four comparison constructors do not compare the operand types:
\* for each of the six symbols and any operands, of equal or of differing
\* types, the call on a builder positioned on a block without a terminator
\* succeeds and inserts exactly one comparison instruction whose operands
\* are (lhs, rhs) in that order.
C17_CompareAcceptsAnyTypes ==
    [][(last'.op \in CmpCtors /\ last'.args.sym \in Recognized
        /\ block # None /\ ~is_terminated(block))
         => /\ last'.ok
            /\ last'.ret.cls \in {"ICMPInstr", "FCMPInstr"}
            /\ last'.ret.operands = <<last'.args.a, last'.args.b>>
            /\ \A b \in Blocks : \A i \in 1..Len(instructions[b]) :
                  instructions[b][i] # last'.ret.id
            /\ Len(instructions'[block]) = Len(instructions[block]) + 1
            /\ instructions'[block][anchor + 1] = last'.ret.id
            /\ \A b \in Blocks \ {block} : instructions'[b] = instructions[b]]_vars

C17_Witness ==
    /\ last.op \in CmpCtors /\ last.ok
    /\ last.args.sym \in Recognized
    /\ last.args.a.type # last.args.b.type
    /\ last.ret.operands = <<last.args.a, last.args.b>>
    /\ block # None /\ ~is_terminated(block)
    /\ instructions[block][anchor] = last.ret.id

\* C18: after position_before(instr) with instr in the current block, the
\* instruction inserted by the next call, if that call is a successful
\* constructor, ends up at the index directly before instr.
C18_InsertedRightBefore ==
    [][(/\ last.op = "position_before" /\ last.ok
        /\ find(instructions[block], last.args.a.val) # -1
        /\ last'.op \in InstrOps /\ last'.ok)
         => find(instructions'[block], last'.ret.id) + 1
              = find(instructions'[block], last.args.a.val)]_vars

\* C19: a block's instruction sequence only grows: in every step each block
\* either keeps its sequence or gains exactly one instruction, one that was
\* in no block before, with every instruction already there kept and any two
\* of them in the same relative order; so none is removed, replaced or
\* duplicated.
GrownByOne(old, new) ==
    /\ Len(new) = Len(old) + 1
    /\ \E k \in 1..Len(new) :
          /\ new[k] \notin Placed
          /\ \A i \in 1..Len(old) : new[IF i < k THEN i ELSE i + 1] = old[i]

C19_SequenceOnlyGrows ==
    [][\A b \in Blocks :
          \/ instructions'[b] = instructions[b]
          \/ GrownByOne(instructions[b], instructions'[b])]_vars

C19_Witness ==
    /\ last.op \in InstrOps /\ last.ok
    /\ block # None /\ Len(instructions[block]) = 3 /\ anchor = 1
    /\ instructions[block] = <<3, 1, 2>>

TypeOK ==
    /\ block \in Blocks \cup {None}
    /\ anchor \in 0..(MaxInstrs + 1)
    /\ nextId \in 1..(MaxInstrs + 1)
====
